---- MODULE Spec2Model ----
(***************************************************************************)
(* The /crawl request handler of app.py (image crawl, person-count filter, *)
(* ZIP packaging), with the file system, the clock and the detection model *)
(* it shares between requests.  Flask's development server handles each    *)
(* request on its own thread, so the handlers of two requests interleave   *)
(* at every access to the clock and to the file system.                    *)
(***************************************************************************)
EXTENDS Integers, Sequences, FiniteSets, TLC

\* ---------------------------------------------------------------- bounds
MaxFiles == 2        \* most files one crawl leaves in its directory
MaxNow == 2          \* last clock tick of a behaviour
TicksPerSecond == 2  \* clock ticks (datetime.now() readings) per second

\* ------------------------------------------------------ program constants
MIN_PERSONS == 3
MAX_PERSONS == 15

Runs == {1, 2}       \* the requests (handler threads) of a behaviour

None == <<>>         \* Python's None for sequence-valued fields
NoCount == -1        \* person_count before the first image is analysed
Raises == -2         \* model(image_path) raised an exception
NotInvoked == -3     \* model(image_path) was not called (model is None)

\* a ZipFile object: not made yet, open for writing, or closed
ZipFile(state, members) == [state |-> state, members |-> members]

\* request.json: keyword is a string (a sequence of characters), max_num is
\* any JSON value; int() accepts only some of them.
Keywords == { <<>>, <<"a", " ", "b">> }
MaxNums == { [isInt |-> TRUE, val |-> MaxFiles], [isInt |-> FALSE, val |-> 0] }

\* request.json may carry min_persons and max_persons, or leave them out
Omitted == [given |-> FALSE, min |-> MIN_PERSONS, max |-> MAX_PERSONS]
PersonRanges == { Omitted,
                  [given |-> TRUE, min |-> MIN_PERSONS - 1, max |-> MIN_PERSONS] }

\* data = request.json
Json(kw, mn, pr) == [keyword |-> kw, max_num |-> mn, persons |-> pr]
NoData == Json(None, [isInt |-> FALSE, val |-> 0], Omitted)

\* What model(image_path) can do on a readable image: a number of persons
\* (around both ends of the filter range), or an exception.
Detections == {MIN_PERSONS - 1, MIN_PERSONS, MAX_PERSONS, MAX_PERSONS + 1}
Inferences == Detections \cup {Raises}

VARIABLES
    now,          \* the wall clock, in ticks
    model,        \* the module-level YOLO model: "loaded" or "None"
    downloads,    \* DOWNLOAD_FOLDER: session directory name -> set of files in it
    zips,         \* ZIP_FOLDER: archive file name -> member names it lists
    pc,           \* where each request's handler is
    data,         \* request.json of each request
    keyword, max_num, session_id,   \* locals of crawl()
    image_files, total_images, valid_images, person_count,
    idx,          \* position of the filter loop in image_files
    zidx,         \* position of the zip loop in valid_images
    zipf,         \* the handler's ZipFile object
    response,     \* what the handler returned
    analysed,     \* the files given to count_persons_in_image (history)
    raised,       \* the files on which model(image_path) raised (history)
    removed,      \* files this handler os.remove()d (history)
    err           \* which statement raised into the except clause (history)

vars == << now, model, downloads, zips, pc, data, keyword, max_num, session_id,
           image_files, total_images, valid_images, person_count, idx, zidx,
           zipf, response, analysed, raised, removed, err >>

locals == << data, keyword, max_num, session_id, image_files, total_images,
             valid_images, person_count, idx, zidx, zipf, analysed, raised,
             removed >>

\* ------------------------------------------------------------- helpers

\* keyword.replace(' ', '_')
replace(s) == [i \in 1 .. Len(s) |-> IF s[i] = " " THEN "_" ELSE s[i]]

\* datetime.now().strftime('%Y%m%d_%H%M%S'): the reading cut to whole seconds
strftime(t) == t \div TicksPerSecond

\* f"{session_id}_{keyword.replace(' ', '_')}.zip"
zip_filename(sid, kw) == << sid, replace(kw) >>

\* f'/download/{zip_filename}'
download_url(name) == << "/download/", name >>

\* int(data.get('max_num', 10))
int(v) == v

\* the bug of taking the requested number for the number of files listed
lenRequested(files, limit) == limit

\* Line 122: total_images = len(image_files); max_num is only the request
len(files, limit) == Len(files)

\* the bug of excluding the two ends of the range
InRangeExclusive(n) == MIN_PERSONS < n /\ n < MAX_PERSONS

\* MIN_PERSONS <= person_count <= MAX_PERSONS
InRange(n) == MIN_PERSONS <= n /\ n <= MAX_PERSONS

\* the bug of letting a failed analysis through instead of returning 0
count_persons_unhandled(m, inf) == IF m = "None" THEN 0 ELSE inf

\* count_persons_in_image: 0 without a model, 0 when the analysis raises,
\* otherwise the number of class-0 boxes.
count_persons_in_image(m, inf) ==
    IF m = "None" THEN 0
    ELSE IF inf = Raises THEN 0
    ELSE inf

\* os.path.exists(save_path)
exists(sid) == sid \in DOMAIN downloads

\* [f for f in os.listdir(save_path) if os.path.isfile(...)], in name order
RECURSIVE listdir(_)
listdir(S) ==
    IF S = {} THEN <<>>
    ELSE LET f == CHOOSE x \in S : \A y \in S : x <= y
         IN  <<f>> \o listdir(S \ {f})

\* the bug of a removal that removes nothing
WithoutNothing(f, k) == f

\* a function without the key k
Without(f, k) == [x \in DOMAIN f \ {k} |-> f[x]]

\* the message of a reply: which text, and the numbers it states
Message(text, total, kept) == [text |-> text, total |-> total, kept |-> kept]

\* jsonify(...) with its HTTP status; keys are the keys of the JSON payload
\* (lines 96, 142-146, 159-163, 166)
Reply(status, http, message, url) ==
    [status |-> status, http |-> http, message |-> message, downloadUrl |-> url,
     keys |-> IF status = "success" THEN {"status", "message", "downloadUrl"}
              ELSE IF status = "error" THEN {"status", "message"}
              ELSE {}]
NoReply == Reply("none", 0, Message("", 0, 0), None)

\* except Exception as e: return jsonify({'status': 'error', ...}), 500
Abort(r, cause) ==
    /\ pc' = [pc EXCEPT ![r] = "Aborted"]
    /\ response' = [response EXCEPT ![r] = Reply("error", 500, Message(cause, 0, 0), None)]
    /\ err' = [err EXCEPT ![r] = cause]

\* ------------------------------------------------------------- initial state
Init ==
    /\ now = 0
    /\ model \in {"loaded", "None"}
    /\ downloads = << >>
    /\ zips = << >>
    /\ pc = [r \in Runs |-> "Created"]
    /\ data = [r \in Runs |-> NoData]
    /\ keyword = [r \in Runs |-> None]
    /\ max_num = [r \in Runs |-> 0]
    /\ session_id = [r \in Runs |-> 0]
    /\ image_files = [r \in Runs |-> <<>>]
    /\ total_images = [r \in Runs |-> 0]
    /\ valid_images = [r \in Runs |-> <<>>]
    /\ person_count = [r \in Runs |-> NoCount]
    /\ idx = [r \in Runs |-> 0]
    /\ zidx = [r \in Runs |-> 0]
    /\ zipf = [r \in Runs |-> ZipFile("unopened", <<>>)]
    /\ response = [r \in Runs |-> NoReply]
    /\ analysed = [r \in Runs |-> <<>>]
    /\ raised = [r \in Runs |-> {}]
    /\ removed = [r \in Runs |-> {}]
    /\ err = [r \in Runs |-> "none"]

\* ------------------------------------------------------------- actions

\* The clock advances.  Only line 100 reads it, so its ticks are followed
\* while some request has still to arrive.
Tick ==
    /\ now < MaxNow
    /\ \E r \in Runs : pc[r] = "Created"
    /\ now' = now + 1
    /\ UNCHANGED << model, downloads, zips, pc, response, err, locals >>

\* Lines 87-101: read the request, validate it, name the session.
\* ranges is what the request bodies may say about min_persons, max_persons.
Receive(r, ranges) ==
    /\ pc[r] = "Created"
    /\ \E kw \in Keywords, mn \in MaxNums, pr \in ranges :
         /\ data' = [data EXCEPT ![r] = Json(kw, mn, pr)]
         /\ keyword' = [keyword EXCEPT ![r] = data'[r].keyword]
         /\ IF ~int(data'[r].max_num).isInt
            THEN \* int() raises outside the try block: no JSON reply
                 /\ pc' = [pc EXCEPT ![r] = "Crashed"]
                 /\ response' = [response EXCEPT ![r] =
                        Reply("exception", 500, Message("ValueError", 0, 0), None)]
                 /\ UNCHANGED << max_num, session_id >>
            ELSE IF keyword'[r] = <<>>
            THEN /\ pc' = [pc EXCEPT ![r] = "Rejected"]
                 /\ max_num' = [max_num EXCEPT ![r] = int(data'[r].max_num).val]
                 /\ response' = [response EXCEPT ![r] =
                        Reply("error", 400, Message("no keyword", 0, 0), None)]
                 /\ UNCHANGED session_id
            ELSE /\ pc' = [pc EXCEPT ![r] = "Reset"]
                 /\ max_num' = [max_num EXCEPT ![r] = int(data'[r].max_num).val]
                 /\ session_id' = [session_id EXCEPT ![r] = strftime(now)]
                 /\ UNCHANGED response
    /\ UNCHANGED << now, model, downloads, zips, err, image_files, total_images,
                    valid_images, person_count, idx, zidx, zipf, analysed,
                    raised, removed >>

\* POST /crawl with the keys the handler reads: keyword and max_num
Request(r) == Receive(r, {Omitted})

\* POST /crawl whose body may also carry min_persons and max_persons
RequestWithRange(r) == Receive(r, PersonRanges)

\* Lines 103-104: if os.path.exists(save_path): shutil.rmtree(save_path)
Rmtree(r) ==
    /\ pc[r] = "Reset"
    /\ downloads' = IF exists(session_id[r])
                    THEN Without(downloads, session_id[r])
                    ELSE downloads
    /\ pc' = [pc EXCEPT ![r] = "Makedirs"]
    /\ UNCHANGED << now, model, zips, response, err, locals >>

\* Line 105: os.makedirs(save_path); FileExistsError if it is there again
Makedirs(r) ==
    /\ pc[r] = "Makedirs"
    /\ IF exists(session_id[r])
       THEN /\ Abort(r, "makedirs")
            /\ UNCHANGED downloads
       ELSE /\ downloads' = (session_id[r] :> {}) @@ downloads
            /\ pc' = [pc EXCEPT ![r] = "Acquiring"]
            /\ UNCHANGED << response, err >>
    /\ UNCHANGED << now, model, zips, locals >>

\* Lines 108-112: the crawler stores k <= max_num files 000001, 000002, .. under
\* save_path (making the directory when it is gone), or raises.
Crawl(r) ==
    /\ pc[r] = "Acquiring"
    /\ \E k \in 0 .. max_num[r], ok \in BOOLEAN :
         IF ok
         THEN /\ downloads' =
                   IF k = 0 THEN downloads
                   ELSE LET old == IF exists(session_id[r])
                                   THEN downloads[session_id[r]] ELSE {}
                        IN  (session_id[r] :> (old \cup (1 .. k))) @@ downloads
              /\ pc' = [pc EXCEPT ![r] = "Listing"]
              /\ UNCHANGED << response, err >>
         ELSE /\ k = 0
              /\ Abort(r, "crawl")
              /\ UNCHANGED downloads
    /\ UNCHANGED << now, model, zips, locals >>

\* Lines 117-122: list the regular files of save_path
Listdir(r) ==
    /\ pc[r] = "Listing"
    /\ IF exists(session_id[r])
       THEN /\ image_files' = [image_files EXCEPT ![r] = listdir(downloads[session_id[r]])]
            /\ total_images' = [total_images EXCEPT ![r] = len(image_files'[r], max_num[r])]
            /\ valid_images' = [valid_images EXCEPT ![r] = <<>>]
            /\ idx' = [idx EXCEPT ![r] = 1]
            /\ pc' = [pc EXCEPT ![r] = "Detecting"]
            /\ UNCHANGED << response, err >>
       ELSE /\ Abort(r, "listdir")
            /\ UNCHANGED << image_files, total_images, valid_images, idx >>
    /\ UNCHANGED << now, model, downloads, zips, data, keyword, max_num, session_id,
                    person_count, zidx, zipf, analysed, raised, removed >>

\* the bug of leaving the loop one file early
LoopOverEarly(r) == idx[r] >= Len(image_files[r])

\* Line 124: for filename in image_files, and whether the loop is over
\* the bug of a loop that names the first listed file in every iteration
filenameFirst(r) == image_files[r][1]

filename(r) == image_files[r][idx[r]]
LoopOver(r) == idx[r] > Len(image_files[r])

\* the bug of naming the next file of the listing instead of this one
image_pathNext(r) ==
    image_files[r][IF idx[r] < Len(image_files[r]) THEN idx[r] + 1 ELSE idx[r]]

\* Line 125: image_path = os.path.join(save_path, filename), the file named
image_path(r) == filename(r)

\* does save_path still hold the file at image_path?
Present(r) ==
    /\ exists(session_id[r])
    /\ image_path(r) \in downloads[session_id[r]]

\* Lines 124-133: person_count = count_persons_in_image(image_path); a file
\* that is gone makes the model raise, which the function turns into 0.
\* A count within the range appends the name to valid_images and the loop
\* goes on; any other count leaves the handler about to os.remove the file.
Count(r) ==
    /\ pc[r] = "Detecting"
    /\ ~LoopOver(r)
    /\ \E inf \in (IF model = "None" THEN {NotInvoked}
                   ELSE IF Present(r) THEN Inferences ELSE {Raises}) :
         /\ raised' = [raised EXCEPT ![r] = IF inf = Raises THEN @ \cup {image_path(r)} ELSE @]
         /\ person_count' = [person_count EXCEPT ![r] = count_persons_in_image(model, inf)]
    /\ analysed' = [analysed EXCEPT ![r] = Append(@, image_path(r))]
    /\ IF InRange(person_count'[r])
       THEN /\ valid_images' = [valid_images EXCEPT ![r] = Append(@, filename(r))]
            /\ idx' = [idx EXCEPT ![r] = @ + 1]
            /\ UNCHANGED pc
       ELSE /\ pc' = [pc EXCEPT ![r] = "Filtering"]
            /\ UNCHANGED << valid_images, idx >>
    /\ UNCHANGED << now, model, downloads, zips, response, err, data, keyword, max_num,
                    session_id, image_files, total_images, zidx, zipf, removed >>

\* the listed files from the loop's position on
Rest(r) == {image_files[r][i] : i \in idx[r] .. Len(image_files[r])}

\* the bug of removing, with a file out of range, every file still to come
RemoveRest(r) ==
    /\ pc[r] = "Filtering"
    /\ IF Present(r)
       THEN /\ downloads' = [downloads EXCEPT ![session_id[r]] = @ \ Rest(r)]
            /\ removed' = [removed EXCEPT ![r] = @ \cup Rest(r)]
            /\ idx' = [idx EXCEPT ![r] = @ + 1]
            /\ pc' = [pc EXCEPT ![r] = "Detecting"]
            /\ UNCHANGED << response, err >>
       ELSE /\ Abort(r, "remove")
            /\ UNCHANGED << downloads, removed, idx >>
    /\ UNCHANGED << now, model, zips, data, keyword, max_num, session_id, image_files,
                    total_images, valid_images, person_count, zidx, zipf,
                    analysed, raised >>

\* Lines 134-135: os.remove(image_path); FileNotFoundError if it is gone
Remove(r) ==
    /\ pc[r] = "Filtering"
    /\ IF Present(r)
       THEN /\ downloads' = [downloads EXCEPT ![session_id[r]] = @ \ {image_path(r)}]
            /\ removed' = [removed EXCEPT ![r] = @ \cup {image_path(r)}]
            /\ idx' = [idx EXCEPT ![r] = @ + 1]
            /\ pc' = [pc EXCEPT ![r] = "Detecting"]
            /\ UNCHANGED << response, err >>
       ELSE /\ Abort(r, "remove")
            /\ UNCHANGED << downloads, removed, idx >>
    /\ UNCHANGED << now, model, zips, data, keyword, max_num, session_id, image_files,
                    total_images, valid_images, person_count, zidx, zipf,
                    analysed, raised >>

\* the bug of treating an empty listing as a failure
NoValidImagesEmptyIsError(r) ==
    /\ pc[r] = "Detecting"
    /\ LoopOver(r)
    /\ valid_images[r] = <<>>
    /\ IF total_images[r] = 0
       THEN /\ pc' = [pc EXCEPT ![r] = "Aborted"]
            /\ response' = [response EXCEPT ![r] =
                   Reply("error", 500, Message("nothing collected", 0, 0), None)]
       ELSE /\ pc' = [pc EXCEPT ![r] = "Done"]
            /\ response' = [response EXCEPT ![r] =
                   Reply("success", 200, Message("none matching", total_images[r], 0), None)]
    /\ UNCHANGED << now, model, downloads, zips, err, locals >>

\* Lines 137-146: the loop is over and valid_images is empty: reply at once
NoValidImages(r) ==
    /\ pc[r] = "Detecting"
    /\ LoopOver(r)
    /\ valid_images[r] = <<>>
    /\ pc' = [pc EXCEPT ![r] = "Done"]
    /\ response' = [response EXCEPT ![r] = Reply("success", 200, Message("none matching", total_images[r], 0), None)]
    /\ UNCHANGED << now, model, downloads, zips, err, locals >>

\* an archive file: the member data written and whether the central
\* directory was written (the file was closed)
Archive(members, closed) == [members |-> members, closed |-> closed]

\* Lines 137-152: the loop is over and valid_images is not empty:
\* zipfile.ZipFile(zip_filepath, 'w') creates or truncates the file
ZipOpen(r) ==
    /\ pc[r] = "Detecting"
    /\ LoopOver(r)
    /\ valid_images[r] # <<>>
    /\ zips' = (zip_filename(session_id[r], keyword[r]) :> Archive(<<>>, FALSE)) @@ zips
    /\ zipf' = [zipf EXCEPT ![r] = ZipFile("open", <<>>)]
    /\ zidx' = [zidx EXCEPT ![r] = 1]
    /\ pc' = [pc EXCEPT ![r] = "Packaging"]
    /\ UNCHANGED << now, model, downloads, response, err, data, keyword, max_num,
                    session_id, image_files, total_images, valid_images,
                    person_count, idx, analysed, raised, removed >>

\* the bug of writing the first valid image at every turn of the loop
image_fileFirst(r) == valid_images[r][1]

\* Line 153: for image_file in valid_images
image_file(r) == valid_images[r][zidx[r]]

\* Line 154: arcname=image_file, the member's name in the archive
arcname(r) == image_file(r)

\* can zipf.write read os.path.join(save_path, image_file)?
Readable(r) ==
    /\ exists(session_id[r])
    /\ image_file(r) \in downloads[session_id[r]]

\* Lines 153-154: zipf.write(path, arcname=image_file).  When it raises (the
\* file is gone, the disk is full), leaving the with block closes the
\* archive as far as it was written and the except clause replies.
ZipWrite(r) ==
    /\ pc[r] = "Packaging"
    /\ zidx[r] <= Len(valid_images[r])
    /\ \E ok \in BOOLEAN :
         IF ok /\ Readable(r)
         THEN /\ zipf' = [zipf EXCEPT ![r].members = Append(@, arcname(r))]
              /\ zips' = (zip_filename(session_id[r], keyword[r]) :> Archive(zipf'[r].members, FALSE)) @@ zips
              /\ zidx' = [zidx EXCEPT ![r] = @ + 1]
              /\ UNCHANGED << pc, response, err >>
         ELSE /\ zipf' = [zipf EXCEPT ![r].state = "closed"]
              /\ zips' = (zip_filename(session_id[r], keyword[r]) :> Archive(zipf[r].members, TRUE)) @@ zips
              /\ Abort(r, "zipwrite")
              /\ UNCHANGED zidx
    /\ UNCHANGED << now, model, downloads, data, keyword, max_num, session_id,
                    image_files, total_images, valid_images, person_count,
                    idx, analysed, raised, removed >>

\* Lines 152-163: the with block ends (the archive is closed), reply success
ZipClose(r) ==
    /\ pc[r] = "Packaging"
    /\ zidx[r] > Len(valid_images[r])
    /\ zipf' = [zipf EXCEPT ![r].state = "closed"]
    /\ zips' = (zip_filename(session_id[r], keyword[r]) :> Archive(zipf[r].members, TRUE)) @@ zips
    /\ response' = [response EXCEPT ![r] =
           Reply("success", 200, Message("collected", total_images[r], Len(valid_images[r])),
                 download_url(zip_filename(session_id[r], keyword[r])))]
    /\ pc' = [pc EXCEPT ![r] = "Done"]
    /\ UNCHANGED << now, model, downloads, err, data, keyword, max_num, session_id,
                    image_files, total_images, valid_images, person_count,
                    idx, zidx, analysed, raised, removed >>

Next ==
    \/ Tick
    \/ \E r \in Runs : Request(r)
    \/ \E r \in Runs : Rmtree(r)
    \/ \E r \in Runs : Makedirs(r)
    \/ \E r \in Runs : Crawl(r)
    \/ \E r \in Runs : Listdir(r)
    \/ \E r \in Runs : Count(r)
    \/ \E r \in Runs : Remove(r)
    \/ \E r \in Runs : NoValidImages(r)
    \/ \E r \in Runs : ZipOpen(r)
    \/ \E r \in Runs : ZipWrite(r)
    \/ \E r \in Runs : ZipClose(r)

Spec == Init /\ [][Next]_vars

\* the same handler, serving request bodies that may carry a person range
NextWithRange ==
    \/ Tick
    \/ \E r \in Runs : RequestWithRange(r)
    \/ \E r \in Runs : Rmtree(r)
    \/ \E r \in Runs : Makedirs(r)
    \/ \E r \in Runs : Crawl(r)
    \/ \E r \in Runs : Listdir(r)
    \/ \E r \in Runs : Count(r)
    \/ \E r \in Runs : Remove(r)
    \/ \E r \in Runs : NoValidImages(r)
    \/ \E r \in Runs : ZipOpen(r)
    \/ \E r \in Runs : ZipWrite(r)
    \/ \E r \in Runs : ZipClose(r)

SpecWithRange == Init /\ [][NextWithRange]_vars


\* ------------------------------------------------------------- vocabulary

Range(q) == {q[i] : i \in 1 .. Len(q)}

\* the number of listed files of run r whose loop iteration is over (the
\* file was counted and then kept or removed)
Iterated(r) == IF idx[r] = 0 THEN 0 ELSE idx[r] - 1

\* the filter loop of run r ran to its end
FilteringComplete(r) ==
    \/ pc[r] = "Detecting" /\ idx[r] > Len(image_files[r])
    \/ pc[r] \in {"Packaging", "Done"}
    \/ pc[r] = "Aborted" /\ err[r] = "zipwrite"

\* run r has been given a session id
HasSession(r) == pc[r] \notin {"Created", "Rejected", "Crashed"}

\* the archive name of run r
ZipName(r) == zip_filename(session_id[r], keyword[r])

\* another run made an archive under the archive name of run r
SharesArchiveName(r) ==
    \E q \in Runs \ {r} : zipf[q].state # "unopened" /\ ZipName(q) = ZipName(r)

\* a step in which run r ends the loop iteration of a file
EndsIteration(r) == idx[r] >= 1 /\ idx'[r] = idx[r] + 1

\* ------------------------------------------------------------- claims

\* C1: the files whose loop iteration is over are each either in the keep
\* list or removed by the run, never both.
C1_KeptOrRemoved ==
    \A r \in Runs :
        /\ Range(valid_images[r]) \cap removed[r] = {}
        /\ Range(valid_images[r]) \cup removed[r]
             = {image_files[r][i] : i \in 1 .. Iterated(r)}

\* C1: a file's loop iteration ends with the file appended to the keep list
\* iff MIN_PERSONS <= its count <= MAX_PERSONS (both ends inclusive), and
\* with the file removed from the working directory iff its count is
\* outside that closed range; the keep list and the removed files change in
\* no other step.
C1_KeepIffInRange ==
    /\ []C1_KeptOrRemoved
    /\ [][\A r \in Runs :
            /\ EndsIteration(r) =>
                 LET f == image_files[r][idx[r]]
                     c == person_count'[r]
                 IN  IF MIN_PERSONS <= c /\ c <= MAX_PERSONS
                     THEN /\ valid_images'[r] = Append(valid_images[r], f)
                          /\ removed'[r] = removed[r]
                          /\ downloads' = downloads
                     ELSE /\ valid_images'[r] = valid_images[r]
                          /\ removed'[r] = removed[r] \cup {f}
                          /\ f \in downloads[session_id[r]]
                          /\ f \notin downloads'[session_id[r]]
            /\ ~EndsIteration(r) =>
                 /\ valid_images'[r] = valid_images[r]
                 /\ removed'[r] = removed[r]]_vars

C1_Witness ==
    \E r \in Runs :
        /\ pc[r] = "Detecting"
        /\ idx[r] = 3
        /\ person_count[r] = MAX_PERSONS
        /\ valid_images[r] = << 2 >>
        /\ removed[r] = {1}
        /\ raised[r] = {}

C1_WitnessLower ==
    \E r \in Runs :
        /\ pc[r] = "Done"
        /\ person_count[r] = MIN_PERSONS
        /\ Len(valid_images[r]) = 2

\* C2: when the filter loop has run to its end, the number of kept files
\* plus the number of files removed by filtering is the number of files
\* listed, and every listed file is in exactly one of the two.
C2_KeptPlusDiscarded ==
    \A r \in Runs : FilteringComplete(r) =>
        /\ Len(valid_images[r]) + Cardinality(removed[r]) = total_images[r]
        /\ total_images[r] = Cardinality(Range(image_files[r]))
        /\ Range(valid_images[r]) \cap removed[r] = {}
        /\ Range(valid_images[r]) \cup removed[r] = Range(image_files[r])
        /\ Cardinality(Range(valid_images[r])) = Len(valid_images[r])

C2_Witness ==
    \E r \in Runs :
        /\ FilteringComplete(r)
        /\ total_images[r] = 2
        /\ Len(valid_images[r]) = 1
        /\ Cardinality(removed[r]) = 1

\* C3: a run that is Done with a non-empty keep list has written and closed
\* an archive whose members are exactly the keep list, each once and
\* under its flat name, none of them a removed file, and the archive file
\* holds exactly these members unless another run wrote under the same
\* archive name; a run that is Done with an empty keep list made no archive.
C3_ArchiveIsKeepSetState ==
    \A r \in Runs : pc[r] = "Done" =>
        IF valid_images[r] = <<>>
        THEN zipf[r].state = "unopened"
        ELSE /\ zipf[r] = ZipFile("closed", valid_images[r])
             /\ Cardinality(Range(zipf[r].members)) = Len(zipf[r].members)
             /\ Range(zipf[r].members) \cap removed[r] = {}
             /\ ~SharesArchiveName(r) =>
                  /\ ZipName(r) \in DOMAIN zips
                  /\ zips[ZipName(r)] = Archive(valid_images[r], TRUE)

\* C3: the above, and in the step in which a run becomes Done with a
\* non-empty keep list the archive file under its name is closed with
\* exactly the keep list as its members, and a run that becomes Done with an
\* empty keep list touches no archive file.
C3_ArchiveIsKeepSet ==
    /\ []C3_ArchiveIsKeepSetState
    /\ [][\A r \in Runs : (pc[r] # "Done" /\ pc'[r] = "Done") =>
            IF valid_images[r] = <<>>
            THEN zips' = zips
            ELSE /\ ZipName(r) \in DOMAIN zips'
                 /\ zips'[ZipName(r)] = Archive(valid_images[r], TRUE)]_vars

C3_Witness ==
    \E r \in Runs :
        /\ pc[r] = "Done"
        /\ Len(valid_images[r]) = 1
        /\ removed[r] # {}
        /\ ~SharesArchiveName(r)
        /\ zips[ZipName(r)] = Archive(valid_images[r], TRUE)

C3_WitnessEmpty ==
    \E r \in Runs :
        /\ pc[r] = "Done"
        /\ valid_images[r] = <<>>
        /\ total_images[r] > 0
        /\ zipf[r].state = "unopened"

C5_DeletionsBeforePackagingState ==
    \A r \in Runs : zipf[r].state # "unopened" =>
        /\ analysed[r] = image_files[r]
        /\ removed[r] = Range(image_files[r]) \ Range(valid_images[r])

\* C5: the above, and a run removes no file in the step that opens its
\* archive or in any later step.
C5_DeletionsBeforePackaging ==
    /\ []C5_DeletionsBeforePackagingState
    /\ [][\A r \in Runs : (zipf[r].state # "unopened" \/ zipf'[r].state # "unopened")
                             => removed'[r] = removed[r]]_vars

C5_Witness ==
    \E r \in Runs :
        /\ zipf[r].state = "open"
        /\ removed[r] # {}
        /\ zipf[r].members # <<>>

\* C6: if the model raised on every file a run listed (the detection of the
\* whole batch failed), the run removed no file and made no archive, and
\* its reply, once given, is an error.
C6_BatchFailureFailsClosed ==
    \A r \in Runs :
        (image_files[r] # <<>> /\ raised[r] = Range(image_files[r]))
        => /\ removed[r] = {}
           /\ zipf[r].state = "unopened"
           /\ response[r].status \in {"none", "error"}

\* C7: without a model (model is None) no run removes a file, and a run
\* whose filter loop is over keeps every file it listed.
C7_DegradedModeKeepsAll ==
    model = "None" =>
        \A r \in Runs :
            /\ removed[r] = {}
            /\ FilteringComplete(r) => valid_images[r] = image_files[r]

\* C8: a run aborts only at makedirs, crawl, listdir, os.remove or the
\* archive write, never at the analysis of an image.
C8_NoDetectionAbort ==
    \A r \in Runs :
        /\ err[r] \in {"none", "makedirs", "crawl", "listdir", "remove", "zipwrite"}
        /\ (pc[r] = "Aborted") <=> (err[r] # "none")
        /\ raised[r] \subseteq Range(analysed[r])

\* C8: when the model raises on one image, that image's count is 0, the step
\* changes no keep list, no file and no other run's count, and the handler
\* goes on to treat the image like any image with count 0 (it removes it
\* and moves to the next file); the loop aborts only when the file to
\* remove is already gone.
C8_SingleFailureIsZero ==
    /\ []C8_NoDetectionAbort
    /\ [][\A r \in Runs :
            raised'[r] # raised[r]
            => /\ person_count'[r] = 0
               /\ pc'[r] = "Filtering"
               /\ valid_images' = valid_images
               /\ removed' = removed
               /\ downloads' = downloads
               /\ \A q \in Runs \ {r} : person_count'[q] = person_count[q]]_vars
    /\ [][\A r \in Runs :
            (pc[r] = "Filtering" /\ pc'[r] # "Filtering")
            => IF Present(r)
               THEN pc'[r] = "Detecting" /\ idx'[r] = idx[r] + 1
               ELSE pc'[r] = "Aborted" /\ err'[r] = "remove"]_vars
    /\ [][\A r \in Runs :
            (pc[r] = "Detecting" /\ pc'[r] = "Aborted") => FALSE]_vars

C8_Witness ==
    \E r \in Runs :
        /\ pc[r] = "Done"
        /\ raised[r] = {1}
        /\ removed[r] = {1}
        /\ valid_images[r] = << 2 >>
        /\ zipf[r] = ZipFile("closed", << 2 >>)

\* C9: no two runs ever hold the same session id.
C9_SessionIdsDistinct ==
    \A r, q \in Runs :
        (r # q /\ HasSession(r) /\ HasSession(q)) => session_id[r] # session_id[q]

\* C10: a run that ended in Aborted replied with an error without archive
\* locator, and no archive file of the run is in the archive folder.
C10_AbortLeavesNoArchive ==
    \A r \in Runs : pc[r] = "Aborted" =>
        /\ response[r].status = "error"
        /\ response[r].downloadUrl = None
        /\ zipf[r].state # "unopened" => ZipName(r) \notin DOMAIN zips

\* ---------------------------------------------------------------- C11
\* C11: cleanup of discarded files is best-effort: a delete that fails does
\* not abort the run; the run goes on to the other files and to packaging
\* and ends Done: no run ends aborted because os.remove failed.
C11_FailedDeleteDoesNotAbort ==
    \A r \in Runs : pc[r] = "Aborted" => err[r] # "remove"

\* ---------------------------------------------------------------- C12
\* C12: the person range of the filter is the one the caller supplies
\* (min_persons, max_persons), and 3..15 only when the caller omits it: the
\* file counted last is in the keep list exactly when its count lies in the
\* range of the run's request.
C12_RangeIsCallerSupplied ==
    \A r \in Runs :
        analysed[r] # <<>> =>
            ( analysed[r][Len(analysed[r])] \in Range(valid_images[r])
              <=> /\ data[r].persons.min <= person_count[r]
                  /\ person_count[r] <= data[r].persons.max )

\* ---------------------------------------------------------------- C13
\* C13: every success reply carries both downloadUrl and imageUrls;
\* downloadUrl is null and imageUrls is empty iff no file was kept.
C13_SuccessHasBothFields ==
    \A r \in Runs :
        response[r].status = "success" =>
            /\ {"downloadUrl", "imageUrls"} \subseteq response[r].keys
            /\ response[r].downloadUrl = None <=> valid_images[r] = <<>>
            /\ response[r].imageUrls = <<>> <=> valid_images[r] = <<>>

\* ---------------------------------------------------------------- C14
\* the preview locator of file f of session sid
preview_url(sid, f) == << "/results/", sid, f >>

\* C14: a success reply of a run that kept files lists one preview locator
\* per kept file, in keep-list order, each /results/{session_id}/{filename}.
C14_OnePreviewPerKeptFile ==
    \A r \in Runs :
        response[r].status = "success" /\ valid_images[r] # <<>> =>
            /\ "imageUrls" \in response[r].keys
            /\ response[r].imageUrls =
                 [i \in 1 .. Len(valid_images[r]) |->
                     preview_url(session_id[r], valid_images[r][i])]

\* ---------------------------------------------------------------- C15
\* run r did nothing beyond reading its request
NoSideEffect(r) ==
    /\ session_id[r] = 0 /\ idx[r] = 0 /\ image_files[r] = <<>>
    /\ analysed[r] = <<>> /\ removed[r] = {}
    /\ zipf[r].state = "unopened"

\* C15: a request whose keyword is empty or missing is answered at once
\* with the validation error (HTTP 400, status error) and has no side
\* effect.
C15_EmptyKeywordRejected ==
    \A r \in Runs :
        pc[r] # "Created" /\ data[r].keyword = <<>> =>
            /\ pc[r] = "Rejected"
            /\ response[r].status = "error" /\ response[r].http = 400
            /\ NoSideEffect(r)

\* ---------------------------------------------------------------- C16
\* the handler of run r has returned or was left by an exception
Ended(r) == pc[r] \in {"Done", "Rejected", "Aborted", "Crashed"}

\* C16: every ended request has one reply; a failed one (invalid input,
\* or a failure while acquiring, detecting, storing or packaging) has the
\* payload {status: error, message}, and a reply is never both.
C16_EveryFailureIsErrorPayload ==
    \A r \in Runs :
        /\ Ended(r) <=> response[r] # NoReply
        /\ pc[r] = "Done" => response[r].status = "success"
        /\ pc[r] \in {"Rejected", "Aborted", "Crashed"} =>
              /\ response[r].status = "error"
              /\ response[r].keys = {"status", "message"}

ListedNothing(r) == idx[r] >= 1 /\ image_files[r] = <<>>

\* the reply of lines 142-146
ZeroResultReply(r) ==
    Reply("success", 200, Message("none matching", total_images[r], 0), None)

\* C18: a run whose listing is empty never calls the detector, deletes
\* nothing and opens no archive; it ends Done, never aborted, with the
\* zero-result success reply (downloadUrl null, the message stating the
\* total, 0, and that none matched), which is the reply of every run that
\* ends with an empty keep list.
C18_NothingCollectedIsZeroResult ==
    \A r \in Runs :
        /\ ListedNothing(r) =>
              /\ total_images[r] = 0
              /\ analysed[r] = <<>> /\ raised[r] = {} /\ person_count[r] = NoCount
              /\ removed[r] = {}
              /\ zipf[r] = ZipFile("unopened", <<>>)
              /\ pc[r] \in {"Detecting", "Done"}
              /\ pc[r] = "Done" => response[r] = ZeroResultReply(r)
        /\ pc[r] = "Done" /\ valid_images[r] = <<>> => response[r] = ZeroResultReply(r)

C18_Witness ==
    \E r \in Runs :
        /\ ListedNothing(r)
        /\ model = "loaded"
        /\ pc[r] = "Done"

\* ---------------------------------------------------------------- C19
\* the dispositions of run r are consistent
C19_Dispositions(r) ==
    /\ Len(analysed[r]) <= Len(image_files[r])
    /\ \A i \in 1 .. Len(analysed[r]) : analysed[r][i] = image_files[r][i]
    /\ \A i, j \in 1 .. Len(analysed[r]) : i # j => analysed[r][i] # analysed[r][j]
    /\ Range(valid_images[r]) \cup removed[r] \subseteq Range(analysed[r])
    /\ Range(valid_images[r]) \cap removed[r] = {}
    /\ Range(zipf[r].members) \subseteq Range(valid_images[r])

\* C19: within a run every listed file is counted at most once, in listing
\* order; a counted file becomes kept or removed once and stays so: the
\* keep list only grows, by the file counted last; the removed files only
\* grow, by a counted file that is not kept; no file is both, and the
\* archive members are kept files.
C19_DispositionSetOnce ==
    /\ [](\A r \in Runs : C19_Dispositions(r))
    /\ [][\A r \in Runs :
            /\ \/ analysed'[r] = analysed[r]
               \/ /\ Len(analysed[r]) < Len(image_files[r])
                  /\ analysed'[r] = Append(analysed[r], image_files[r][Len(analysed[r]) + 1])
                  /\ image_files[r][Len(analysed[r]) + 1] \notin Range(analysed[r])
            /\ \/ valid_images'[r] = valid_images[r]
               \/ /\ analysed'[r] # analysed[r]
                  /\ valid_images'[r] =
                       Append(valid_images[r], analysed'[r][Len(analysed'[r])])
            /\ \/ removed'[r] = removed[r]
               \/ /\ analysed[r] # <<>>
                  /\ removed'[r] = removed[r] \cup {analysed[r][Len(analysed[r])]}
                  /\ analysed[r][Len(analysed[r])] \notin Range(valid_images[r])
            /\ image_files[r] # <<>> => image_files'[r] = image_files[r]]_vars

C19_Witness ==
    \E r \in Runs :
        /\ pc[r] = "Done"
        /\ Len(analysed[r]) = 2
        /\ Len(valid_images[r]) = 1
        /\ Cardinality(removed[r]) = 1
        /\ zipf[r].members = valid_images[r]

\* ---------------------------------------------------------------- C20
\* C20: once the filter loop of a run has run to its end (the run is about
\* to reply or package, is packaging, is Done, or aborted while packaging),
\* the session directory exists and the files in it are exactly the kept
\* files; the removed files are counted files that were not kept.
C20_DirectoryIsKeepSet ==
    \A r \in Runs :
        FilteringComplete(r) =>
            /\ exists(session_id[r])
            /\ downloads[session_id[r]] = Range(valid_images[r])
            /\ removed[r] = Range(analysed[r]) \ Range(valid_images[r])

====
